---------------------------- MODULE Spec2Model ----------------------------
(***************************************************************************)
(* Concreteness classification of candidate nouns (OrbitCoCo/DuoTang).     *)
(*                                                                         *)
(*   src/filter_words.py    the heuristic lexical classifier               *)
(*                          (is_profane, is_abstract_noun, should_filter)  *)
(*                          and the partitioning loop of main              *)
(*   src/generate_nouns.py  the taxonomy-based classifier                  *)
(*                          (is_concrete_noun), the word-validity filter   *)
(*                          (is_valid_word) and get_concrete_nouns         *)
(*                                                                         *)
(* Words, suffixes and definition texts are TLA+ strings; the Python       *)
(* string methods the code uses (lower, endswith, isalpha, isupper, the    *)
(* substring test `in`) are operators over the characters of a string.     *)
(***************************************************************************)
EXTENDS Integers, Sequences, FiniteSets, TLC

VARIABLES
    wn,              \* the taxonomy snapshot: token -> sequence of noun senses
    calls,           \* the classifier calls made so far, oldest first
    words,           \* filter_words.main: the loaded word list
    pos,             \* filter_words.main: words[1..pos] have been partitioned
    filtered_words,  \* filter_words.main: the kept sequence
    removed_words,   \* filter_words.main: the removed sequence
    lemma_names,     \* get_concrete_nouns: the lemma names of wn.all_synsets, in order
    lemma_pos,       \* get_concrete_nouns: lemma_names[1..lemma_pos] have been read
    all_nouns,       \* get_concrete_nouns: the set of valid nouns
    sorted_nouns,    \* get_concrete_nouns: sorted(all_nouns), the order of the second loop
    noun_pos,        \* get_concrete_nouns: sorted_nouns[1..noun_pos] have been classified
    concrete_nouns,  \* get_concrete_nouns: the set of concrete nouns
    nouns,           \* get_concrete_nouns: the list returned
    pc               \* position of the orchestrator being run

main_vars == <<words, pos, filtered_words, removed_words>>

gen_vars ==
    <<lemma_names, lemma_pos, all_nouns, sorted_nouns, noun_pos, concrete_nouns, nouns>>

vars == <<wn, calls, main_vars, gen_vars, pc>>

Range(s) == {s[i] : i \in DOMAIN s}

(***************************************************************************)
(* Characters and the Python str methods.                                  *)
(***************************************************************************)
LowerLetters == "abcdefghijklmnopqrstuvwxyz"
UpperLetters == "ABCDEFGHIJKLMNOPQRSTUVWXYZ"

\* TLA+ string literals are ASCII.  "@" stands for an alphabetic code point
\* that has no case (Unicode category Lo, such as U+4E2D): str.isalpha() is
\* True of it, str.isupper() and str.islower() are False, lower() keeps it.
CaselessLetter == "@"

CharAt(s, i) == SubSeq(s, i, i)

Chars(s) == { CharAt(s, i) : i \in 1..Len(s) }

UpperSet == Chars(UpperLetters)
LowerSet == Chars(LowerLetters)
AlphaSet == UpperSet \cup LowerSet \cup {CaselessLetter}

\* the lowercase letter of each uppercase letter
ToLower ==
    [c \in UpperSet |->
        CharAt(LowerLetters, CHOOSE i \in 1..Len(UpperLetters) : CharAt(UpperLetters, i) = c)]

char_isupper(c) == c \in UpperSet
char_islower(c) == c \in LowerSet
char_isalpha(c) == c \in AlphaSet
char_lower(c)   == IF c \in UpperSet THEN ToLower[c] ELSE c

\* str.lower()
RECURSIVE str_lower(_)
str_lower(s) ==
    IF Len(s) = 0 THEN s
    ELSE char_lower(CharAt(s, 1)) \o str_lower(SubSeq(s, 2, Len(s)))

\* str.isalpha(): every character alphabetic and at least one character
str_isalpha(s) == Len(s) > 0 /\ \A i \in 1..Len(s) : char_isalpha(CharAt(s, i))

\* str.endswith(suffix)
str_endswith(s, suffix) ==
    /\ Len(suffix) <= Len(s)
    /\ SubSeq(s, Len(s) - Len(suffix) + 1, Len(s)) = suffix

\* the substring test `sub in s`
str_contains(s, sub) ==
    \E i \in 1..(Len(s) - Len(sub) + 1) : SubSeq(s, i, i + Len(sub) - 1) = sub

\* str.replace(old, new) for single characters
RECURSIVE str_replace(_, _, _)
str_replace(s, old, new) ==
    IF Len(s) = 0 THEN s
    ELSE (IF CharAt(s, 1) = old THEN new ELSE CharAt(s, 1))
             \o str_replace(SubSeq(s, 2, Len(s)), old, new)

\* The characters of the model in code point order (the caseless letter
\* stands for a code point above "z"), and the rank of each.
CodePoints ==
    " -0123456789" \o UpperLetters \o "_" \o LowerLetters \o CaselessLetter

CodeOf ==
    [c \in Chars(CodePoints) |->
        CHOOSE i \in 1..Len(CodePoints) : CharAt(CodePoints, i) = c]

\* the order of str: a < b
RECURSIVE str_less(_, _)
str_less(a, b) ==
    IF Len(b) = 0 THEN FALSE
    ELSE IF Len(a) = 0 THEN TRUE
    ELSE IF CharAt(a, 1) = CharAt(b, 1)
         THEN str_less(SubSeq(a, 2, Len(a)), SubSeq(b, 2, Len(b)))
         ELSE CodeOf[CharAt(a, 1)] < CodeOf[CharAt(b, 1)]

\* sorted(S) for a set of strings
RECURSIVE sorted(_)
sorted(S) ==
    IF S = {} THEN << >>
    ELSE LET least == CHOOSE x \in S : \A y \in S \ {x} : str_less(x, y)
         IN  << least >> \o sorted(S \ {least})

(***************************************************************************)
(* src/filter_words.py: the curated sets.                                  *)
(***************************************************************************)
PROFANITY ==
    { "ass", "arse", "asshole", "bastard", "bitch", "bollocks", "crap", "cunt",
      "damn", "dick", "fuck", "fucking", "piss", "shit", "slut", "whore",
      "fisting", "floozie", "cock", "coitus" }

ABSTRACT_SUFFIXES ==
    << "tion", "sion", "ment", "ness", "ity", "ty", "ance", "ence", "ship", "hood",
      "dom", "ism", "ization", "isation", "age", "ery", "ry", "cy" >>

ABSTRACT_WORDS ==
    { "ability", "abnormality", "abolishment", "abortion", "abrogation",
      "absence", "abuse", "acceptance", "accomplishment", "accord", "accordance",
      "accountability", "accuracy", "accusation", "achievement", "acknowledgment",
      "activation", "activity", "adaptation", "addiction", "adjustment",
      "administration", "admission", "adoption", "advance", "advancement",
      "advantage", "advent", "advertising", "advice", "advocacy", "affair",
      "affect", "affinity", "aftermath", "agency", "aggression", "agony",
      "agreement", "aid", "aim", "alarm", "alert", "allegation", "allocation",
      "allowance", "amazement", "ambiguity", "ambition", "amendment", "amnesty",
      "amusement", "analgesia", "anarchy", "anger", "angina", "anguish",
      "animation", "announcement", "answer", "anticipation", "anxiety", "apology",
      "appeal", "appearance", "appellation", "appetite", "applause",
      "application", "appointment", "appreciation", "apprehension", "approach",
      "appropriation", "approval", "argument", "arithmetic", "arrangement",
      "array", "arrest", "arrival", "arrogance", "art", "ascend", "ascent",
      "aside", "aspect", "aspiration", "assassination", "assault", "assembly",
      "assertion", "assessment", "assignment", "assistance", "association",
      "assumption", "assurance", "asymmetry", "attempt", "attendance",
      "attention", "attenuation", "attitude", "attraction", "attribute",
      "authentication", "authenticity", "authorisation", "authority",
      "authorization", "autoimmunity", "automation", "availability", "avalanche",
      "average", "aversion", "award", "awareness", "awe", "backburn", "backdrop",
      "background", "backup", "bafflement", "bail", "balance", "ban", "bandwidth",
      "banking", "bankruptcy", "bargain", "barrage", "barrier", "baseline",
      "basics", "basis", "batting", "battle", "beat", "beating", "beauty",
      "beginning", "behalf", "behavior", "behaviour", "beheading", "behest",
      "behold", "being", "belief", "belligerency", "benefit", "best-seller",
      "bestseller", "bet", "betray", "betrayal", "betting", "beverage", "beyond",
      "bias", "bibliography", "bid", "bidding", "billing", "billion", "biography",
      "biology", "biopsy", "birth", "birthday", "bit", "bite", "bitter",
      "bitterness", "blackness", "blame", "blank", "blast", "bleeding", "blend",
      "blessing", "blight", "blindness", "bliss", "blow", "blue", "blunder",
      "blur", "blush", "boast", "boasting", "body", "boil", "bombing", "bond",
      "bonding", "bonus", "booking", "boolean", "boom", "boon", "boost", "border",
      "bore", "boredom", "borrowing", "bother", "bottom", "bottom-line", "bout",
      "boundary", "boycott", "boyhood", "bracket", "brag", "bragging", "brain",
      "brand", "bravery", "breach", "break", "breakdown", "breakfast",
      "breakpoint", "breakthrough", "breath", "breathing", "breed", "breeding",
      "breeze", "bribery", "brief", "briefing", "briefly", "brightness",
      "brilliance", "brilliant", "brink", "broadcast", "brotherhood", "browsing",
      "brunch", "brushing", "brutality", "bubble", "budget", "build", "building",
      "bulk", "bulletin", "bullying", "bump", "bunch", "bundle", "burden",
      "burial", "burn", "burn-out", "burning", "burst", "business", "bust",
      "bustle", "buy", "buyer", "buying", "buzz", "adulthood", "afternoon",
      "afterlife", "aftershock", "afterthought", "age", "century", "childhood",
      "dawn", "day", "daylight", "deadline", "decade", "delay", "duration",
      "dusk", "era", "eternity", "eve", "evening", "event", "forever",
      "fortnight", "future", "girlhood", "hour", "interval", "lifespan",
      "lifetime", "manhood", "midnight", "millennium", "minute", "moment",
      "month", "morning", "night", "nightfall", "nighttime", "noon", "past",
      "period", "present", "season", "second", "semester", "shift", "spell",
      "springtime", "summertime", "sunrise", "sunset", "teatime", "term", "time",
      "timeframe", "timeline", "tomorrow", "tonight", "twilight", "week",
      "weekend", "while", "wintertime", "year", "yesterday", "youth", "act",
      "action", "addition", "alteration", "analysis", "assist", "attack",
      "attainment", "blackmail", "blink", "bounce", "branding", "academics",
      "accompanist", "accountant", "achiever", "activist", "actor", "actress",
      "admin", "administrator", "adult", "adviser", "advocate", "agent", "aide",
      "airman", "alien", "allergist", "ally", "ambassador", "analyst",
      "anarchist", "ancestor", "angel", "anesthesiologist", "announcer",
      "antagonist", "anthropologist", "anybody", "anyone", "applicant",
      "archaeologist", "archer", "architect", "aristocrat", "artist", "assistant",
      "associate", "astronaut", "astronomer", "atheist", "athlete", "attendant",
      "attorney", "audience", "aunt", "author", "baby", "babe", "bachelor",
      "badger", "baker", "ballerina", "balloonist", "bandleader", "bandit",
      "banker", "barber", "bard", "baritone", "bartender", "bather", "batman",
      "beggar", "beginner", "believer", "beneficiary", "bidder", "billionaire",
      "biographer", "biologist", "blacksmith", "blogger", "bloke", "boarder",
      "boatman", "bodyguard", "bondsman", "bookkeeper", "boss", "bouncer", "boy",
      "boyfriend", "bride", "bridesmaid", "brigadier", "broadcaster", "broker",
      "brother", "brother-in-law", "buddy", "builder", "burglar", "businessman",
      "businesswoman", "butcher", "butler", "bystander", "citizenship",
      "comradeship", "companionship", "courtship", "fellowship", "fatherhood",
      "friendship", "kinship", "leadership", "membership", "motherhood",
      "ownership", "parenthood", "partnership", "relationship", "sisterhood",
      "sportsmanship", "stewardship", "apprenticeship", "dictatorship",
      "guardianship", "hardship", "internship", "kingship", "lordship",
      "readership", "scholarship", "sponsorship", "trusteeship", "workmanship" }

ABSTRACT_KEYWORDS ==
    << "abundance", "amount", "capacity", "degree", "depth", "dimension",
      "distance", "extent", "height", "length", "level", "magnitude", "measure",
      "portion", "quantity", "ratio", "scale", "scope", "size", "total", "volume",
      "weight", "width", "condition", "situation", "state", "status",
      "circumstance", "position", "concept", "idea", "notion", "theory",
      "thought", "principle", "hypothesis", "philosophy", "ideology", "quality",
      "characteristic", "feature", "trait", "attribute", "property", "process",
      "procedure", "method", "system", "technique", "approach", "strategy", "law",
      "legislation", "regulation", "rule", "policy", "protocol", "statute",
      "analysis", "research", "study", "investigation", "examination",
      "evaluation", "assessment" >>

\* is_abstract_noun, lines 191-197: the exception whitelist of the suffix rule
SUFFIX_EXCEPTIONS ==
    << "station", "nation", "ration", "portion", "motion", "lotion", "potion",
      "cushion", "fashion", "mansion", "passion", "session", "mission",
      "television", "prison", "poison", "bison", "melon", "lemon", "demon",
      "summon", "common", "salmon", "cotton", "button", "mutton", "mitten",
      "kitten", "garden", "warden", "burden", "golden", "wooden", "sudden" >>

\* the lists as the sets their membership tests range over
KEYWORD_SET   == Range(ABSTRACT_KEYWORDS)
EXCEPTION_SET == Range(SUFFIX_EXCEPTIONS)

(***************************************************************************)
(* src/filter_words.py: the heuristic lexical classifier.                  *)
(* A classifier returns a Boolean; the *_site operators give the line of   *)
(* the return statement that produced it, which is what tells the verdicts *)
(* Profane, Abstract and Keep apart.                                       *)
(***************************************************************************)

\* is_abstract_noun, lines 188-199: the loop over ABSTRACT_SUFFIXES from the
\* k-th suffix on.  TRUE when it returns True at line 199, FALSE when the loop
\* runs out; a whitelisted word takes `continue` at line 198.
RECURSIVE suffix_loop(_, _)
suffix_loop(word_lower, k) ==
    IF k > Len(ABSTRACT_SUFFIXES) THEN FALSE
    ELSE IF str_endswith(word_lower, ABSTRACT_SUFFIXES[k])
         THEN IF word_lower \in EXCEPTION_SET
              THEN suffix_loop(word_lower, k + 1)
              ELSE TRUE
         ELSE suffix_loop(word_lower, k + 1)

\* Variant of is_abstract_noun with the keyword check (line 183) placed before
\* the direct-match check (line 179).
is_abstract_noun_site_keywords_first(word) ==
    LET word_lower == str_lower(word) IN
    IF word_lower \in KEYWORD_SET THEN 184
    ELSE IF word_lower \in ABSTRACT_WORDS THEN 180
    ELSE IF Len(word) > 7 /\ suffix_loop(word_lower, 1) THEN 199
    ELSE 201

\* Variant of is_abstract_noun with the length test of line 187 off by one.
is_abstract_noun_site_len7(word) ==
    LET word_lower == str_lower(word) IN
    IF word_lower \in ABSTRACT_WORDS THEN 180
    ELSE IF word_lower \in KEYWORD_SET THEN 184
    ELSE IF Len(word) >= 7 /\ suffix_loop(word_lower, 1) THEN 199
    ELSE 201

\* is_abstract_noun as the line it returns at: 180, 184, 199 (True) or 201 (False)
is_abstract_noun_site(word) ==
    LET word_lower == str_lower(word) IN
    IF word_lower \in ABSTRACT_WORDS THEN 180
    ELSE IF word_lower \in KEYWORD_SET THEN 184
    ELSE IF Len(word) > 7 /\ suffix_loop(word_lower, 1) THEN 199
    ELSE 201

is_abstract_noun(word) == is_abstract_noun_site(word) # 201

is_profane(word) == str_lower(word) \in PROFANITY

\* should_filter as the line it returns at: 213, 217 (True) or 219 (False)
should_filter_site(word) ==
    IF is_profane(word) THEN 213
    ELSE IF is_abstract_noun(word) THEN 217
    ELSE 219

should_filter(word) == should_filter_site(word) # 219

\* The verdict of the heuristic classifier, read off the return statement.
HeuristicVerdict(site) ==
    CASE site = 213 -> "Profane"
      [] site = 217 -> "Abstract"
      [] site = 219 -> "Keep"

(***************************************************************************)
(* src/generate_nouns.py: the taxonomy (WordNet through nltk) as the code  *)
(* reads it.  A noun sense is a record                                     *)
(*   [hypernym_paths     : the sequence of ancestor paths, each a sequence *)
(*                         of synset names (synset.hypernym_paths()),      *)
(*    definition         : synset.definition(),                            *)
(*    instance_hypernyms : synset.instance_hypernyms(), as synset names]   *)
(* and wn.synsets(word, pos=wn.NOUN) is the sequence wn holds for word,    *)
(* empty for a word the taxonomy does not know.                            *)
(***************************************************************************)
wn_synsets(word) == IF word \in DOMAIN wn THEN wn[word] ELSE << >>

\* is_concrete_noun, lines 38-68
abstract_roots ==
    { "abstraction.n.06", "psychological_feature.n.01", "attribute.n.02",
      "state.n.04", "event.n.01", "act.n.02", "group.n.01", "measure.n.02",
      "time_period.n.01", "relation.n.01", "communication.n.02", "content.n.05",
      "possession.n.02", "social_group.n.01", "body_part.n.01",
      "internal_organ.n.01", "person.n.01", "human.n.01", "worker.n.01",
      "adult.n.01", "juvenile.n.01", "national.n.01", "native.n.03",
      "resident.n.01", "inhabitant.n.01", "professional.n.01",
      "skilled_worker.n.01", "organization.n.01", "establishment.n.01" }

\* is_concrete_noun, lines 71-79
concrete_roots ==
    { "physical_entity.n.01", "object.n.01", "artifact.n.01",
      "natural_object.n.01", "living_thing.n.01", "organism.n.01",
      "whole.n.02" }

\* is_concrete_noun, lines 98-101
abstract_keywords ==
    << "concept of", "idea of", "theory of", "principle of", "state of being",
       "feeling of", "emotion of", "the act of", "the action of",
       "the process of", "the activity of", "the event of" >>

\* Variant of the technical keyword list without the entry 'ion'.
technical_keywords_without_ion ==
    << "drug used", "medicine", "pharmaceutical", "medication",
       "chemical compound", "enzyme", "hormone", "protein", "antibiotic",
       "trademark", "trade name", "brand name", "physics", "chemistry",
       "particle", "subatomic", "molecular", "atom", "transmits",
       "duplicator", "device for", "apparatus", "instrument for measuring",
       "amphetamine", "anesthetic", "crystalline", "sedative", "stimulant",
       "analgesic", "ester", "alkaloid", "steroid", "vitamin", "fossil",
       "extinct" >>

\* is_concrete_noun, lines 107-115
technical_keywords ==
    << "drug used", "medicine", "pharmaceutical", "medication",
       "chemical compound", "enzyme", "hormone", "protein", "antibiotic",
       "trademark", "trade name", "brand name", "physics", "chemistry",
       "particle", "subatomic", "molecular", "atom", "ion", "transmits",
       "duplicator", "device for", "apparatus", "instrument for measuring",
       "amphetamine", "anesthetic", "crystalline", "sedative", "stimulant",
       "analgesic", "ester", "alkaloid", "steroid", "vitamin", "fossil",
       "extinct" >>

\* is_concrete_noun, line 122
formal_suffixes ==
    << "tion", "sion", "ism", "ity", "ness", "ment", "ence", "ance" >>

\* lines 83-85: the names on every ancestor path of the sense
hypernyms_of(synset) ==
    UNION { Range(synset.hypernym_paths[p]) : p \in DOMAIN synset.hypernym_paths }

\* any(keyword in definition for keyword in keywords)
any_keyword_in(keywords, definition) ==
    \E k \in DOMAIN keywords : str_contains(definition, keywords[k])

\* Variant of the loop body without the abstract-root test of lines 92-93.
synset_site_no_abstract_test(word, synset) ==
    LET hypernyms  == hypernyms_of(synset)
        definition == str_lower(synset.definition)
    IN  IF hypernyms \cap concrete_roots = {} THEN 89
        ELSE IF any_keyword_in(abstract_keywords, definition) THEN 104
        ELSE IF any_keyword_in(technical_keywords, definition) THEN 118
        ELSE 128

\* One pass of the loop body, lines 82-128, as the line that ends it: a
\* `continue` at 89, 93, 104, 118 or 126, or the `return True` at 128.
synset_site(word, synset) ==
    LET hypernyms  == hypernyms_of(synset)
        definition == str_lower(synset.definition)
    IN  IF hypernyms \cap concrete_roots = {} THEN 89
        ELSE IF hypernyms \cap abstract_roots # {} THEN 93
        ELSE IF any_keyword_in(abstract_keywords, definition) THEN 104
        ELSE IF any_keyword_in(technical_keywords, definition) THEN 118
        ELSE IF /\ Len(word) > 8
                /\ \E s \in DOMAIN formal_suffixes :
                       str_endswith(word, formal_suffixes[s])
                /\ \/ str_contains(definition, "reproduction")
                   \/ str_contains(definition, "duplication")
                   \/ str_contains(definition, "replication")
             THEN 126
        ELSE 128

\* The ancestor paths of the first k senses, one after the other.
RECURSIVE accumulated_paths(_, _)
accumulated_paths(synsets, k) ==
    IF k = 0 THEN << >>
    ELSE accumulated_paths(synsets, k - 1) \o synsets[k].hypernym_paths

\* Variant of the loop in which `hypernyms = set()` (line 83) stands before
\* the loop: the set keeps the ancestors of the senses already read.
RECURSIVE synset_loop_accumulating(_, _, _)
synset_loop_accumulating(word, synsets, k) ==
    IF k > Len(synsets) THEN 0
    ELSE IF synset_site(word, [synsets[k] EXCEPT
                !.hypernym_paths = accumulated_paths(synsets, k)]) = 128 THEN k
    ELSE synset_loop_accumulating(word, synsets, k + 1)

\* Variant of the loop that gives up at the first sense that does not qualify
\* (a `return False` where lines 89-126 have `continue`).
RECURSIVE synset_loop_first_sense_only(_, _, _)
synset_loop_first_sense_only(word, synsets, k) ==
    IF k > Len(synsets) THEN 0
    ELSE IF synset_site(word, synsets[k]) = 128 THEN k
    ELSE 0

\* The loop of line 81 from the k-th sense on: the index of the sense the
\* function returns True at (line 128), or 0 when the loop runs out (line 130).
RECURSIVE synset_loop(_, _, _)
synset_loop(word, synsets, k) ==
    IF k > Len(synsets) THEN 0
    ELSE IF synset_site(word, synsets[k]) = 128 THEN k
    ELSE synset_loop(word, synsets, k + 1)

\* Variant of is_concrete_noun that takes a word the taxonomy does not know
\* for a concrete noun.
is_concrete_noun_site_unknown_concrete(word) ==
    LET synsets == wn_synsets(word) IN
    IF Len(synsets) = 0 THEN 128
    ELSE IF synset_loop(word, synsets, 1) > 0 THEN 128
    ELSE 130

\* is_concrete_noun as the line it returns at: 35 (no noun sense, False),
\* 128 (True) or 130 (False)
is_concrete_noun_site(word) ==
    LET synsets == wn_synsets(word) IN
    IF Len(synsets) = 0 THEN 35
    ELSE IF synset_loop(word, synsets, 1) > 0 THEN 128
    ELSE 130

is_concrete_noun(word) == is_concrete_noun_site(word) = 128

\* The verdict of the taxonomy-based classifier.
TaxonomyVerdict(site) == IF site = 128 THEN "Concrete" ELSE "Abstract"

\* is_valid_word as the line it returns at: 138, 142, 149 (False) or 151
\* (True); 141 when word[0] raises IndexError on an empty word.
is_valid_word_site(word) ==
    LET synsets == wn_synsets(word) IN
    IF ~ str_isalpha(word) THEN 138
    ELSE IF Len(word) = 0 THEN 141
    ELSE IF char_isupper(CharAt(word, 1)) THEN 142
    ELSE IF /\ Len(synsets) > 0
            /\ \A k \in DOMAIN synsets : Len(synsets[k].instance_hypernyms) > 0
         THEN 149
    ELSE 151

is_valid_word(word) == is_valid_word_site(word) = 151

(***************************************************************************)
(* Classifier calls.  A call appends to `calls` the record of what it      *)
(* returned: the function, the word, the Boolean, the line of the return   *)
(* statement (`site`), that of the nested decision (`inner`: the return    *)
(* line of is_abstract_noun, or the index of the sense is_concrete_noun    *)
(* returned True at; 0 when there is none), and whether it raised.         *)
(* No call assigns the taxonomy or anything else.                          *)
(***************************************************************************)
should_filter_call(word) ==
    /\ calls' = Append(calls,
           [fn       |-> "should_filter",
            word     |-> word,
            returned |-> should_filter(word),
            site     |-> should_filter_site(word),
            inner    |-> IF is_profane(word) THEN 0
                         ELSE is_abstract_noun_site(word),
            raised   |-> FALSE])
    /\ UNCHANGED <<wn, main_vars, gen_vars, pc>>

\* Variant of the call in which the sense sequence is a one-shot iterator:
\* the senses the loop has read are gone from the taxonomy afterwards.
is_concrete_noun_call_consuming(word) ==
    /\ calls' = Append(calls,
           [fn       |-> "is_concrete_noun",
            word     |-> word,
            returned |-> is_concrete_noun(word),
            site     |-> is_concrete_noun_site(word),
            inner    |-> synset_loop(word, wn_synsets(word), 1),
            raised   |-> FALSE])
    /\ wn' = [w \in DOMAIN wn |->
                 IF w = word /\ synset_loop(word, wn[w], 1) > 0
                 THEN SubSeq(wn[w], synset_loop(word, wn[w], 1) + 1, Len(wn[w]))
                 ELSE IF w = word THEN << >> ELSE wn[w]]
    /\ UNCHANGED <<main_vars, gen_vars, pc>>

is_concrete_noun_call(word) ==
    /\ calls' = Append(calls,
           [fn       |-> "is_concrete_noun",
            word     |-> word,
            returned |-> is_concrete_noun(word),
            site     |-> is_concrete_noun_site(word),
            inner    |-> synset_loop(word, wn_synsets(word), 1),
            raised   |-> FALSE])
    /\ UNCHANGED <<wn, main_vars, gen_vars, pc>>

is_valid_word_call(word) ==
    /\ calls' = Append(calls,
           [fn       |-> "is_valid_word",
            word     |-> word,
            returned |-> is_valid_word(word),
            site     |-> is_valid_word_site(word),
            inner    |-> 0,
            raised   |-> is_valid_word_site(word) = 141])
    /\ UNCHANGED <<wn, main_vars, gen_vars, pc>>

\* The taxonomy that knows no word.
EmptyTaxonomy == [w \in {} |-> << >>]

\* filter_words.main has loaded no word list.
MainIdle ==
    /\ words = << >>
    /\ pos = 0
    /\ filtered_words = << >>
    /\ removed_words = << >>

\* get_concrete_nouns has not been called.
GenIdle ==
    /\ lemma_names = << >>
    /\ lemma_pos = 0
    /\ all_nouns = {}
    /\ sorted_nouns = << >>
    /\ noun_pos = 0
    /\ concrete_nouns = {}
    /\ nouns = << >>

(***************************************************************************)
(* SpecHeuristic: one call of should_filter on a token.                    *)
(***************************************************************************)
MaxPad == 6

RECURSIVE Pad(_)
Pad(n) == IF n = 0 THEN "" ELSE "x" \o Pad(n - 1)

CuratedTokens ==
    PROFANITY \cup ABSTRACT_WORDS \cup Range(ABSTRACT_KEYWORDS)
        \cup Range(SUFFIX_EXCEPTIONS)

Endings ==
    Range(ABSTRACT_SUFFIXES) \cup Range(SUFFIX_EXCEPTIONS)
        \cup { "", "ant", "ing", "ion", "y", "Tion", "MENT", "Station" }

PaddedTokens ==
    { Pad(n) \o e : n \in 0..MaxPad, e \in Endings }
        \cup { "X" \o Pad(n) \o e : n \in 0..MaxPad, e \in Endings }

ScenarioTokens ==
    { "elephant", "ability", "fucking", "application", "station", "Paris",
      "7up", "chair", "Fucking", "ABILITY", "Portion", "TELEVISION",
      "Television", "Assessment", "best-seller", "ice cream" }

HeuristicTokens == CuratedTokens \cup PaddedTokens \cup ScenarioTokens

InitHeuristic ==
    /\ wn = EmptyTaxonomy
    /\ calls = << >>
    /\ MainIdle
    /\ GenIdle
    /\ pc = "calls"

NextHeuristic ==
    \E word \in HeuristicTokens : calls = << >> /\ should_filter_call(word)

SpecHeuristic == InitHeuristic /\ [][NextHeuristic]_vars

(***************************************************************************)
(* SpecTaxonomy: one call of is_concrete_noun or is_valid_word on a word,  *)
(* against a taxonomy snapshot that holds up to MaxSenses noun senses for  *)
(* it.  The senses are drawn from ancestor paths and definition texts of   *)
(* the kinds the classifier tells apart.                                   *)
(***************************************************************************)
MaxSenses == 2

PathArtifact ==
    << "entity.n.01", "physical_entity.n.01", "object.n.01", "whole.n.02",
       "artifact.n.01", "instrumentality.n.03", "furnishing.n.02",
       "furniture.n.01", "seat.n.03", "chair.n.01" >>
PathAbstract ==
    << "entity.n.01", "abstraction.n.06", "psychological_feature.n.01",
       "event.n.01", "act.n.02", "activity.n.01", "occupation.n.01",
       "position.n.06", "professorship.n.01" >>
PathPerson ==
    << "entity.n.01", "physical_entity.n.01", "causal_agent.n.01",
       "person.n.01", "leader.n.01", "presiding_officer.n.01" >>
PathThing == << "entity.n.01", "thing.n.08" >>

\* values of synset.hypernym_paths(): one path or several
SamplePaths ==
    { << PathArtifact >>, << PathAbstract >>, << PathPerson >>, << PathThing >>,
      << PathArtifact, PathAbstract >> }

\* values of synset.definition()
SampleDefinitions ==
    { "a seat for one person",
      "the act of sitting",
      "a Trademark for a seat",
      "a copy made by reproduction" }

SampleSynsets ==
    { [hypernym_paths |-> p, definition |-> d, instance_hypernyms |-> << >>] :
          p \in SamplePaths, d \in SampleDefinitions }
    \cup
    { [hypernym_paths     |-> << PathThing >>,
       definition         |-> "the capital and largest city of France",
       instance_hypernyms |-> << "national_capital.n.01" >>] }

SynsetLists == UNION { [1..k -> SampleSynsets] : k \in 0..MaxSenses }

\* words the taxonomy may hold senses for, and tokens it holds none for
LemmaWords == { "chair", "collection", "paris" }
OtherTokens == { "Paris", "pARIS", "7up", "ice cream", "", "@", "a@" }

InitTaxonomy ==
    /\ \/ \E word \in LemmaWords, synsets \in SynsetLists : wn = (word :> synsets)
       \/ \E word \in OtherTokens : wn = (word :> << >>)
    /\ calls = << >>
    /\ MainIdle
    /\ GenIdle
    /\ pc = "calls"

NextTaxonomy ==
    \/ \E word \in DOMAIN wn : calls = << >> /\ is_concrete_noun_call(word)
    \/ \E word \in DOMAIN wn : calls = << >> /\ is_valid_word_call(word)

SpecTaxonomy == InitTaxonomy /\ [][NextTaxonomy]_vars

(***************************************************************************)
(* Spec: up to MaxCalls classifier calls, in any order and on any of the   *)
(* tokens, against one taxonomy snapshot.                                  *)
(***************************************************************************)
MaxCalls == 3

CallTokens == { "chair", "ability", "elephant" }

SeatSense ==
    [hypernym_paths     |-> << PathArtifact >>,
     definition         |-> "a seat for one person",
     instance_hypernyms |-> << >>]
ProfessorshipSense ==
    [hypernym_paths     |-> << PathAbstract >>,
     definition         |-> "the position of professor",
     instance_hypernyms |-> << >>]
AbilitySense ==
    [hypernym_paths     |-> << << "entity.n.01", "abstraction.n.06",
                                  "attribute.n.02", "quality.n.01", "ability.n.01" >> >>,
     definition         |-> "the quality of being able to perform",
     instance_hypernyms |-> << >>]

\* taxonomy snapshots: none of the tokens known, some known, "elephant" never
CallTaxonomies ==
    { EmptyTaxonomy,
      "chair" :> << SeatSense >>,
      "chair" :> << ProfessorshipSense, SeatSense >>,
      ("chair" :> << ProfessorshipSense >>) @@ ("ability" :> << AbilitySense >>),
      ("chair" :> << SeatSense, ProfessorshipSense >>) @@ ("ability" :> << AbilitySense >>) }

Init ==
    /\ wn \in CallTaxonomies
    /\ calls = << >>
    /\ MainIdle
    /\ GenIdle
    /\ pc = "calls"

Next ==
    \/ \E word \in CallTokens : Len(calls) < MaxCalls /\ should_filter_call(word)
    \/ \E word \in CallTokens : Len(calls) < MaxCalls /\ is_concrete_noun_call(word)
    \/ \E word \in CallTokens : Len(calls) < MaxCalls /\ is_valid_word_call(word)

Spec == Init /\ [][Next]_vars

(***************************************************************************)
(* SpecMain: filter_words.main from the loaded word list to the end of the *)
(* partitioning loop.  The list is what words.js holds: any tokens.        *)
(***************************************************************************)
MaxWords == 3

MainTokens ==
    { "elephant", "ability", "fucking", "application", "station", "portion",
      "7up", "Paris" }

WordLists == UNION { [1..n -> MainTokens] : n \in 0..MaxWords }

\* Variant of the loop body without the `else` of line 233: a removed word is
\* kept as well.
main_iterate_without_else ==
    /\ pc = "main_loop"
    /\ pos < Len(words)
    /\ LET word == words[pos + 1] IN
           /\ removed_words' = IF should_filter(word)
                                THEN Append(removed_words, word)
                                ELSE removed_words
           /\ filtered_words' = Append(filtered_words, word)
           /\ calls' = Append(calls,
                  [fn       |-> "should_filter",
                   word     |-> word,
                   returned |-> should_filter(word),
                   site     |-> should_filter_site(word),
                   inner    |-> IF is_profane(word) THEN 0
                                ELSE is_abstract_noun_site(word),
                   raised   |-> FALSE])
    /\ pos' = pos + 1
    /\ UNCHANGED <<wn, words, gen_vars, pc>>

\* main, lines 230-234: one iteration of `for word in words`
main_iterate ==
    /\ pc = "main_loop"
    /\ pos < Len(words)
    /\ LET word == words[pos + 1] IN
           /\ IF should_filter(word)
              THEN /\ removed_words' = Append(removed_words, word)
                   /\ UNCHANGED filtered_words
              ELSE /\ filtered_words' = Append(filtered_words, word)
                   /\ UNCHANGED removed_words
           /\ calls' = Append(calls,
                  [fn       |-> "should_filter",
                   word     |-> word,
                   returned |-> should_filter(word),
                   site     |-> should_filter_site(word),
                   inner    |-> IF is_profane(word) THEN 0
                                ELSE is_abstract_noun_site(word),
                   raised   |-> FALSE])
    /\ pos' = pos + 1
    /\ UNCHANGED <<wn, words, gen_vars, pc>>

\* main, lines 236-288: the loop is over; the two lists are written out as
\* they stand (filtered_words.json, removed_words.json, words_new.js)
main_finish ==
    /\ pc = "main_loop"
    /\ pos = Len(words)
    /\ pc' = "main_done"
    /\ UNCHANGED <<wn, calls, main_vars, gen_vars>>

\* main, lines 223-228: the word list is loaded, both lists are empty
InitMain ==
    /\ wn = EmptyTaxonomy
    /\ calls = << >>
    /\ words \in WordLists
    /\ pos = 0
    /\ filtered_words = << >>
    /\ removed_words = << >>
    /\ GenIdle
    /\ pc = "main_loop"

NextMain == main_iterate \/ main_finish

SpecMain == InitMain /\ [][NextMain]_vars

(***************************************************************************)
(* SpecGenerate: get_concrete_nouns(min_length=2, max_length=10) over the  *)
(* lemma names the taxonomy yields.                                        *)
(***************************************************************************)
MaxLemmas == 3

min_length == 2
max_length == 10

GenLemmaNames == { "chair", "Paris", "ice_cream", "7up", "X", "ability" }

LemmaLists == UNION { [1..n -> GenLemmaNames] : n \in 0..MaxLemmas }

ParisSense ==
    [hypernym_paths     |-> << PathThing >>,
     definition         |-> "the capital and largest city of France",
     instance_hypernyms |-> << "national_capital.n.01" >>]

GenTaxonomies ==
    { ("chair" :> << SeatSense >>) @@ ("ability" :> << AbilitySense >>),
      ("chair" :> << ProfessorshipSense, SeatSense >>) @@ ("paris" :> << ParisSense >>),
      ("paris" :> << ParisSense, SeatSense >>) @@ ("x" :> << SeatSense >>) }

\* lines 163-170 on one lemma name: the word added to all_nouns, in a set, or
\* the empty set when the name is skipped
valid_noun_of(lemma_name) ==
    LET word == str_replace(lemma_name, "_", " ") IN
    IF ~ str_contains(word, " ") /\ ~ str_contains(word, "-")
    THEN LET lowered == str_lower(word) IN
         IF /\ min_length <= Len(lowered)
            /\ Len(lowered) <= max_length
            /\ is_valid_word(lowered)
         THEN {lowered}
         ELSE {}
    ELSE {}

\* whether lines 163-169 reach the call of is_valid_word for the lemma name
reaches_is_valid_word(lemma_name) ==
    LET word == str_replace(lemma_name, "_", " ") IN
    /\ ~ str_contains(word, " ")
    /\ ~ str_contains(word, "-")
    /\ min_length <= Len(str_lower(word))
    /\ Len(str_lower(word)) <= max_length

\* get_concrete_nouns, lines 161-170: one lemma of the first loop
gen_collect ==
    /\ pc = "gen_collect"
    /\ lemma_pos < Len(lemma_names)
    /\ LET lemma_name == lemma_names[lemma_pos + 1]
           lowered    == str_lower(str_replace(lemma_name, "_", " "))
       IN  /\ all_nouns' = all_nouns \cup valid_noun_of(lemma_name)
           /\ calls' = IF reaches_is_valid_word(lemma_name)
                       THEN Append(calls,
                                [fn       |-> "is_valid_word",
                                 word     |-> lowered,
                                 returned |-> is_valid_word(lowered),
                                 site     |-> is_valid_word_site(lowered),
                                 inner    |-> 0,
                                 raised   |-> is_valid_word_site(lowered) = 141])
                       ELSE calls
    /\ lemma_pos' = lemma_pos + 1
    /\ UNCHANGED <<wn, main_vars, lemma_names, sorted_nouns, noun_pos,
                   concrete_nouns, nouns, pc>>

\* get_concrete_nouns, lines 172-176: the first loop is over; the second one
\* runs over sorted(all_nouns)
gen_sort ==
    /\ pc = "gen_collect"
    /\ lemma_pos = Len(lemma_names)
    /\ sorted_nouns' = sorted(all_nouns)
    /\ pc' = "gen_filter"
    /\ UNCHANGED <<wn, calls, main_vars, lemma_names, lemma_pos, all_nouns,
                   noun_pos, concrete_nouns, nouns>>

\* get_concrete_nouns, lines 176-181: one word of the second loop
gen_classify ==
    /\ pc = "gen_filter"
    /\ noun_pos < Len(sorted_nouns)
    /\ LET word == sorted_nouns[noun_pos + 1] IN
           /\ concrete_nouns' = IF is_concrete_noun(word)
                                THEN concrete_nouns \cup {word}
                                ELSE concrete_nouns
           /\ calls' = Append(calls,
                  [fn       |-> "is_concrete_noun",
                   word     |-> word,
                   returned |-> is_concrete_noun(word),
                   site     |-> is_concrete_noun_site(word),
                   inner    |-> synset_loop(word, wn_synsets(word), 1),
                   raised   |-> FALSE])
    /\ noun_pos' = noun_pos + 1
    /\ UNCHANGED <<wn, main_vars, lemma_names, lemma_pos, all_nouns,
                   sorted_nouns, nouns, pc>>

\* get_concrete_nouns, line 183: return sorted(concrete_nouns)
gen_return ==
    /\ pc = "gen_filter"
    /\ noun_pos = Len(sorted_nouns)
    /\ nouns' = sorted(concrete_nouns)
    /\ pc' = "gen_done"
    /\ UNCHANGED <<wn, calls, main_vars, lemma_names, lemma_pos, all_nouns,
                   sorted_nouns, noun_pos, concrete_nouns>>

\* get_concrete_nouns, lines 157-160: both sets are empty
InitGenerate ==
    /\ wn \in GenTaxonomies
    /\ calls = << >>
    /\ MainIdle
    /\ lemma_names \in LemmaLists
    /\ lemma_pos = 0
    /\ all_nouns = {}
    /\ sorted_nouns = << >>
    /\ noun_pos = 0
    /\ concrete_nouns = {}
    /\ nouns = << >>
    /\ pc = "gen_collect"

NextGenerate == gen_collect \/ gen_sort \/ gen_classify \/ gen_return

SpecGenerate == InitGenerate /\ [][NextGenerate]_vars

(***************************************************************************)
(* SpecFormalSuffix: one is_concrete_noun call on a word that does or does *)
(* not meet the length and suffix condition of line 123, against a         *)
(* taxonomy snapshot whose definitions do or do not mention the words of   *)
(* line 125, in lower and in upper case.                                   *)
(***************************************************************************)
\* words: longer than 8 with a formal suffix, longer than 8 without one,
\* and with a formal suffix but not longer than 8
FormalWords == { "collection", "apartment", "franchise", "mansion" }

\* values of synset.definition()
FormalDefinitions ==
    { "a copy made by reproduction",
      "the Duplication of a key",
      "a REPLICATION of a statue",
      "a replica of a statue",
      "a seat for one person" }

FormalSynsets ==
    { [hypernym_paths |-> p, definition |-> d, instance_hypernyms |-> << >>] :
          p \in { << PathArtifact >>, << PathAbstract >> },
          d \in FormalDefinitions }

FormalSynsetLists == UNION { [1..k -> FormalSynsets] : k \in 0..MaxSenses }

InitFormalSuffix ==
    /\ \E word \in FormalWords, synsets \in FormalSynsetLists :
           wn = (word :> synsets)
    /\ calls = << >>
    /\ MainIdle
    /\ GenIdle
    /\ pc = "calls"

NextFormalSuffix ==
    \E word \in DOMAIN wn : calls = << >> /\ is_concrete_noun_call(word)

SpecFormalSuffix == InitFormalSuffix /\ [][NextFormalSuffix]_vars

(***************************************************************************)
(* Properties of the heuristic classifier, checked under SpecHeuristic.    *)
(***************************************************************************)
ShouldFilterCalls == { i \in DOMAIN calls : calls[i].fn = "should_filter" }

\* The four rules of the heuristic classifier, stated on the word alone.
InProfanity(word)     == str_lower(word) \in PROFANITY
InAbstractWords(word) == str_lower(word) \in ABSTRACT_WORDS
InKeywords(word)      == \E k \in DOMAIN ABSTRACT_KEYWORDS :
                             ABSTRACT_KEYWORDS[k] = str_lower(word)
SuffixRule(word) ==
    /\ Len(word) > 7
    /\ \E s \in DOMAIN ABSTRACT_SUFFIXES :
           str_endswith(str_lower(word), ABSTRACT_SUFFIXES[s])
    /\ \A e \in DOMAIN SUFFIX_EXCEPTIONS : SUFFIX_EXCEPTIONS[e] # str_lower(word)

\* C1 (as claimed): should_filter returns False (Keep) for every word of the
\* suffix exception whitelist.
C1_WhitelistKept ==
    \A i \in ShouldFilterCalls :
        calls[i].word \in Range(SUFFIX_EXCEPTIONS) => calls[i].returned = FALSE

C6_SuffixRule ==
    \A i \in ShouldFilterCalls :
        LET c == calls[i]
            w == c.word
        IN  ~ InProfanity(w) /\ ~ InAbstractWords(w) /\ ~ InKeywords(w) =>
                /\ c.returned = SuffixRule(w)
                /\ HeuristicVerdict(c.site) =
                       IF SuffixRule(w) THEN "Abstract" ELSE "Keep"
                /\ Len(w) <= 7 => HeuristicVerdict(c.site) = "Keep"

\* C6 witness: a word of exactly 8 characters outside the curated sets was
\* made Abstract by its suffix.
C6_Witness ==
    \E i \in ShouldFilterCalls :
        /\ ~ InProfanity(calls[i].word)
        /\ ~ InAbstractWords(calls[i].word)
        /\ ~ InKeywords(calls[i].word)
        /\ Len(calls[i].word) = 8
        /\ calls[i].returned = TRUE
        /\ calls[i].inner = 199

(***************************************************************************)
(* Properties of the taxonomy-based classifier and of the validity filter, *)
(* checked under SpecTaxonomy.                                             *)
(***************************************************************************)
ConcreteCalls == { i \in DOMAIN calls : calls[i].fn = "is_concrete_noun" }
ValidityCalls == { i \in DOMAIN calls : calls[i].fn = "is_valid_word" }

\* `name` is an ancestor category of the sense: it lies on one of its paths.
IsAncestor(sense, name) ==
    \E p \in DOMAIN sense.hypernym_paths :
        \E n \in DOMAIN sense.hypernym_paths[p] : sense.hypernym_paths[p][n] = name

\* Step (a): a physical-object sense.
PhysicalObjectSense(sense) ==
    /\ \E c \in concrete_roots : IsAncestor(sense, c)
    /\ \A a \in abstract_roots : ~ IsAncestor(sense, a)

AbstractSense(sense) == \E a \in abstract_roots : IsAncestor(sense, a)

Mentions(sense, phrase) == str_contains(str_lower(sense.definition), phrase)

\* Exclusions (b), (c) and (d) on the definition of a sense of `word`.
ExcludedB(sense) == \E k \in DOMAIN abstract_keywords : Mentions(sense, abstract_keywords[k])
ExcludedC(sense) == \E k \in DOMAIN technical_keywords : Mentions(sense, technical_keywords[k])
ExcludedD(word, sense) ==
    /\ Len(word) > 8
    /\ \E s \in DOMAIN formal_suffixes : str_endswith(word, formal_suffixes[s])
    /\ \E m \in { "reproduction", "duplication", "replication" } : Mentions(sense, m)

Survives(word, sense) ==
    /\ PhysicalObjectSense(sense)
    /\ ~ ExcludedB(sense)
    /\ ~ ExcludedC(sense)
    /\ ~ ExcludedD(word, sense)

\* C2 (as claimed): a word with one physical-object sense and one abstract
\* sense is Concrete, whatever the order of the two senses.
C2_AnyPhysicalSenseConcrete ==
    \A i \in ConcreteCalls :
        LET senses == wn_synsets(calls[i].word) IN
        /\ \E k \in DOMAIN senses : PhysicalObjectSense(senses[k])
        /\ \E k \in DOMAIN senses : AbstractSense(senses[k])
        => calls[i].returned = TRUE

\* C2 (amended): a word with one physical-object sense whose definition passes
\* the exclusions (b), (c) and (d), and one abstract sense, is Concrete,
\* whatever the order of the two senses.
C2_AnySurvivingSenseConcrete ==
    \A i \in ConcreteCalls :
        LET senses == wn_synsets(calls[i].word) IN
        /\ \E k \in DOMAIN senses : Survives(calls[i].word, senses[k])
        /\ \E k \in DOMAIN senses : AbstractSense(senses[k])
        => calls[i].returned = TRUE

\* C2 witness: the abstract sense comes first, the physical-object sense
\* second, and the word was classified Concrete at the second sense.
C2_Witness ==
    \E i \in ConcreteCalls :
        LET senses == wn_synsets(calls[i].word) IN
        /\ Len(senses) = 2
        /\ AbstractSense(senses[1])
        /\ Survives(calls[i].word, senses[2])
        /\ calls[i].returned = TRUE
        /\ calls[i].inner = 2

\* C4 (as claimed): is_valid_word is True exactly when the token is all
\* alphabetic, its first character is lowercase, and it is not the case that
\* every noun sense of it is a named-instance sense (a token the taxonomy has
\* no sense for is not exclusively a proper name).
C4_ValidIff ==
    \A i \in ValidityCalls :
        LET t      == calls[i].word
            senses == wn_synsets(t)
        IN  calls[i].returned =
                /\ \A n \in 1..Len(t) : CharAt(t, n) \in AlphaSet
                /\ Len(t) > 0 /\ CharAt(t, 1) \in LowerSet
                /\ ~ /\ Len(senses) > 0
                     /\ \A k \in DOMAIN senses :
                            senses[k].instance_hypernyms # << >>

\* C7: is_concrete_noun returns Concrete exactly when the word has a noun
\* sense whose ancestor categories meet the concrete roots and miss the
\* abstract roots and whose definition passes exclusions (b), (c) and (d);
\* a word with no noun sense, or with no surviving sense, is Abstract.
C7_ConcreteIffSurvivingSense ==
    \A i \in ConcreteCalls :
        LET c      == calls[i]
            senses == wn_synsets(c.word)
        IN  /\ c.returned = (\E k \in DOMAIN senses : Survives(c.word, senses[k]))
            /\ TaxonomyVerdict(c.site) = IF c.returned THEN "Concrete" ELSE "Abstract"
            /\ senses = << >> => TaxonomyVerdict(c.site) = "Abstract"

\* C7 witness: the first sense is a physical object excluded by its
\* definition, the second one survives, and the verdict is Concrete.
C7_Witness ==
    \E i \in ConcreteCalls :
        LET senses == wn_synsets(calls[i].word) IN
        /\ Len(senses) = 2
        /\ PhysicalObjectSense(senses[1])
        /\ ExcludedB(senses[1]) \/ ExcludedC(senses[1])
        /\ Survives(calls[i].word, senses[2])
        /\ TaxonomyVerdict(calls[i].site) = "Concrete"

(***************************************************************************)
(* Properties of filter_words.main, checked under SpecMain.                *)
(***************************************************************************)
Kept(word)    == ~ should_filter(word)
Removed(word) == should_filter(word)

Count(seq, word) == Cardinality({ i \in DOMAIN seq : seq[i] = word })

\* C3 (as claimed): the Word-Validity Filter guards the pipeline: a token
\* that fails is_valid_word is never classified, never appears in the kept
\* output, and is counted as removed.
C3_InvalidTokenNeverKept ==
    /\ \A i \in DOMAIN calls : is_valid_word(calls[i].word)
    /\ \A i \in DOMAIN filtered_words : is_valid_word(filtered_words[i])
    /\ \A k \in 1..pos :
           ~ is_valid_word(words[k]) => words[k] \in Range(removed_words)

\* C3, for get_concrete_nouns (checked under SpecGenerate): there the filter
\* does come first: every word handed to is_concrete_noun, and every word of
\* the result, passes is_valid_word; a lemma that fails it is in no list at
\* all (the code keeps no removed list).
C3_GenerateFiltersFirst ==
    /\ \A i \in DOMAIN calls :
           calls[i].fn = "is_concrete_noun" => is_valid_word(calls[i].word)
    /\ \A w \in all_nouns \cup concrete_nouns \cup Range(nouns) : is_valid_word(w)
    /\ \A i \in DOMAIN calls :
           calls[i].fn = "is_valid_word" /\ ~ calls[i].returned
               => calls[i].word \notin all_nouns \cup concrete_nouns \cup Range(nouns)
    /\ pc = "gen_done" =>
           /\ Range(nouns) = { w \in all_nouns : is_concrete_noun(w) }
           /\ \A i, j \in DOMAIN nouns : i < j => str_less(nouns[i], nouns[j])

\* C8: the kept and the removed sequence partition the words handled so far:
\* kept is the subsequence of the words should_filter is False for, removed
\* the subsequence of the others, each in the order of the input; every
\* position went to exactly one of them, so the two together hold every word
\* as often as the input does and no word is in both; when the loop is over
\* the words handled are the whole input.
C8_Partition ==
    LET handled == SubSeq(words, 1, pos) IN
    /\ filtered_words = SelectSeq(handled, Kept)
    /\ removed_words = SelectSeq(handled, Removed)
    /\ Len(filtered_words) + Len(removed_words) = pos
    /\ \A w \in Range(words) :
           Count(filtered_words, w) + Count(removed_words, w) = Count(handled, w)
    /\ Range(filtered_words) \cap Range(removed_words) = {}
    /\ pc = "main_done" => pos = Len(words)

\* C8 witness: the loop is over, a word was kept and the same word was
\* removed twice.
C8_Witness ==
    /\ pc = "main_done"
    /\ Len(filtered_words) >= 1
    /\ Len(removed_words) >= 2
    /\ removed_words[1] = removed_words[2]

(***************************************************************************)
(* Properties of the classifier calls, checked under Spec.                 *)
(***************************************************************************)
LowercaseAlphabetic(token) ==
    /\ Len(token) > 0
    /\ \A n \in 1..Len(token) : CharAt(token, n) \in LowerSet

\* The heuristic classifier has no information about the word: it is in no
\* curated set and ends with no listed suffix.
NoHeuristicInformation(word) ==
    /\ ~ InProfanity(word)
    /\ ~ InAbstractWords(word)
    /\ ~ InKeywords(word)
    /\ \A s \in DOMAIN ABSTRACT_SUFFIXES :
           ~ str_endswith(str_lower(word), ABSTRACT_SUFFIXES[s])

\* C9 (as claimed): no call on a lowercase alphabetic token raises, and a
\* classifier that has no information about the word (no taxonomy sense; in
\* no curated set and matching no suffix) gives an exclude verdict.
C9_NoThrowExcludeByDefault ==
    \A i \in DOMAIN calls :
        LET c == calls[i] IN
        LowercaseAlphabetic(c.word) =>
            /\ c.raised = FALSE
            /\ c.fn = "is_concrete_noun" /\ wn_synsets(c.word) = << >>
                   => TaxonomyVerdict(c.site) = "Abstract"
            /\ c.fn = "should_filter" /\ NoHeuristicInformation(c.word)
                   => HeuristicVerdict(c.site) # "Keep"

\* C9 (amended): no call on a lowercase alphabetic token raises; the
\* taxonomy-based classifier gives the exclude verdict Abstract for a word
\* with no taxonomy sense, while the heuristic classifier gives Keep for a
\* word that is in no curated set and matches no suffix.
C9_NoThrowTaxonomyExcludesHeuristicKeeps ==
    \A i \in DOMAIN calls :
        LET c == calls[i] IN
        LowercaseAlphabetic(c.word) =>
            /\ c.raised = FALSE
            /\ c.fn = "is_concrete_noun" /\ wn_synsets(c.word) = << >>
                   => c.returned = FALSE /\ TaxonomyVerdict(c.site) = "Abstract"
            /\ c.fn = "should_filter" /\ NoHeuristicInformation(c.word)
                   => c.returned = FALSE /\ HeuristicVerdict(c.site) = "Keep"

\* C9 witness: all three functions were called on a word that the taxonomy
\* has no sense for and that is in no curated set and matches no suffix.
C9_Witness ==
    \E w \in CallTokens :
        /\ wn_synsets(w) = << >>
        /\ NoHeuristicInformation(w)
        /\ \E i \in DOMAIN calls :
               calls[i].word = w /\ calls[i].fn = "is_concrete_noun"
                   /\ calls[i].returned = FALSE
        /\ \E i \in DOMAIN calls :
               calls[i].word = w /\ calls[i].fn = "should_filter"
                   /\ calls[i].returned = FALSE
        /\ \E i \in DOMAIN calls :
               calls[i].word = w /\ calls[i].fn = "is_valid_word"
                   /\ calls[i].raised = FALSE

synset_site_without_d(word, synset) ==
    LET hypernyms  == hypernyms_of(synset)
        definition == str_lower(synset.definition)
    IN  IF hypernyms \cap concrete_roots = {} THEN 89
        ELSE IF hypernyms \cap abstract_roots # {} THEN 93
        ELSE IF any_keyword_in(abstract_keywords, definition) THEN 104
        ELSE IF any_keyword_in(technical_keywords, definition) THEN 118
        ELSE 128

\* The verdict of the classifier with exclusion (d) removed.
is_concrete_noun_without_d(word) ==
    \E k \in DOMAIN wn_synsets(word) :
        synset_site_without_d(word, wn_synsets(word)[k]) = 128

\* The definition of the sense mentions one of the words of line 125.
MentionsCopying(sense) ==
    \E m \in { "reproduction", "duplication", "replication" } : Mentions(sense, m)

\* C11: exclusion (d) is redundant.  Every sense whose definition mentions
\* reproduction, duplication or replication contains the technical marker
\* 'ion', no sense of the word ever stops at the `continue` of exclusion (d)
\* (line 126), and the classifier with exclusion (d) removed returns the
\* verdict is_concrete_noun returned.
C11_ExclusionDRedundant ==
    \A i \in ConcreteCalls :
        LET c      == calls[i]
            senses == wn_synsets(c.word)
        IN  /\ \A k \in DOMAIN senses :
                   /\ MentionsCopying(senses[k]) => Mentions(senses[k], "ion")
                   /\ synset_site(c.word, senses[k]) # 126
            /\ c.returned = is_concrete_noun_without_d(c.word)

\* C11 witness: the word is longer than 8 and ends in a formal suffix, its
\* only sense is a physical object whose definition passes exclusion (b) and
\* mentions duplication, the loop left that sense at exclusion (c), and the
\* verdict was Abstract.
C11_Witness ==
    \E i \in ConcreteCalls :
        LET c      == calls[i]
            senses == wn_synsets(c.word)
        IN  /\ Len(senses) = 1
            /\ ExcludedD(c.word, senses[1])
            /\ Mentions(senses[1], "duplication")
            /\ PhysicalObjectSense(senses[1])
            /\ ~ ExcludedB(senses[1])
            /\ synset_site(c.word, senses[1]) = 118
            /\ c.returned = FALSE

(***************************************************************************)
(* Properties of the sense loop of is_concrete_noun, checked under         *)
(* SpecTaxonomy.                                                           *)
(***************************************************************************)
\* The orders n senses can come in.
SenseOrders(n) ==
    { f \in [1..n -> 1..n] : \A a, b \in 1..n : a # b => f[a] # f[b] }

\* The sense sequence in the order f.
Permuted(synsets, f) == [k \in 1..Len(synsets) |-> synsets[f[k]]]

\* The sense the loop of lines 81-128 returns True at when wn.synsets gives
\* the word the senses `synsets` (0: it returns False), and the verdict.
FoundIn(word, synsets) == synset_loop(word, synsets, 1)
ConcreteOn(word, synsets) == FoundIn(word, synsets) > 0

\* C12: sense-order independence.  For every word and every permutation of
\* the noun senses the taxonomy returns for it, is_concrete_noun returns the
\* verdict it returned for the order the taxonomy gave; when it is Concrete
\* the sense the loop stops at is the earliest, in the permuted order, of
\* the senses that qualify on their own.
C12_SenseOrderIndependent ==
    \A i \in ConcreteCalls :
        LET c      == calls[i]
            senses == wn_synsets(c.word)
        IN  \A f \in SenseOrders(Len(senses)) :
                LET p == Permuted(senses, f) IN
                /\ ConcreteOn(c.word, p) = c.returned
                /\ c.returned =>
                       /\ synset_site(c.word, p[FoundIn(c.word, p)]) = 128
                       /\ \A k \in 1..(FoundIn(c.word, p) - 1) :
                              synset_site(c.word, p[k]) # 128

\* C12 witness: of two different senses only the second qualifies, the call
\* returned Concrete at the second sense, and with the two senses swapped
\* the loop stops at the first.
C12_Witness ==
    \E i \in ConcreteCalls :
        LET c      == calls[i]
            senses == wn_synsets(c.word)
        IN  /\ Len(senses) = 2
            /\ synset_site(c.word, senses[1]) # 128
            /\ synset_site(c.word, senses[2]) = 128
            /\ c.returned = TRUE
            /\ c.inner = 2
            /\ FoundIn(c.word, << senses[2], senses[1] >>) = 1

=============================================================================
